---- MODULE Spec2Model ----
(***************************************************************************)
(* notebooks/data_ingestion.ipynb: the module-level NEWS_API_KEY, the      *)
(* function fetch_stock_news and the driver cell that calls it and prints  *)
(* the returned articles.  The upstream service and the network are the    *)
(* environment: every answer requests.get can give is a choice of Get.     *)
(***************************************************************************)
EXTENDS Integers, Sequences, FiniteSets, TLC

VARIABLES
    NEWS_API_KEY,   \* module global, os.getenv('NEWS_API_KEY')
    pc,             \* position of the running cell
    args,           \* ticker, hours_back, page, page_size of the running call
    now,            \* the local `now` of fetch_stock_news
    params,         \* the local `params` dict
    resp,           \* the local `resp`
    outcome,        \* how the call ended: nothing yet, a return value, an exception
    cellExc,        \* exception raised by the driver cell's own statements, or None
    articles,       \* the driver cell's `articles`
    idx,            \* position of the driver's for loop in `articles`
    stdout,         \* what the running cell has printed, in order
    trace,          \* statements of fetch_stock_news executed by the running call
    wire,           \* query strings of the HTTP requests the running call has sent
    sent,           \* number of HTTP requests of the latest call
    nCalls,         \* invocations of fetch_stock_news so far
    nRequests       \* HTTP requests sent so far

vars == <<NEWS_API_KEY, pc, args, now, params, resp, outcome, cellExc, articles,
          idx, stdout, trace, wire, sent, nCalls, nRequests>>

----------------------------------------------------------------------------
(* Bounds of the model *)

MaxArticles == 2      \* longest synthetic `articles` array an answer carries
MaxCalls == 2         \* invocations of fetch_stock_news in one behaviour
MaxDay == 1           \* clock readings fall on days 1..MaxDay
MaxHoursBack == 25    \* largest hours_back argument

(* Program constants *)

HoursPerDay == 24
DefaultPage == 1
DefaultPageSize == 50
DriverHoursBack == 24
DriverPage == 1
DriverPageSize == 5

None == "<None>"

----------------------------------------------------------------------------
(* datetime, timedelta(hours=h), isoformat *)

\* A naive datetime: a day number and an hour of that day.
Datetime(d, h) == [day |-> d, hour |-> h]

ToHours(dt) == dt.day * HoursPerDay + dt.hour

\* A subtraction that forgets the borrow from the day.
MinusHoursNoBorrow(dt, h) == Datetime(dt.day, (dt.hour - h) % HoursPerDay)

\* datetime - timedelta(hours=h): the result is normalised, the hour stays in
\* 0..23 and the day absorbs the borrow.
MinusHours(dt, h) ==
    LET t == ToHours(dt) - h
    IN  Datetime(t \div HoursPerDay, t % HoursPerDay)

\* datetime.isoformat(): the date part, then the time part.
isoformat(dt) == <<dt.day, dt.hour>>

\* The instant an isoformat text denotes, in hours.
IsoHours(s) == s[1] * HoursPerDay + s[2]

NowValues == {Datetime(d, h) : d \in 1..MaxDay, h \in {0, HoursPerDay - 1}}

----------------------------------------------------------------------------
(* Arguments *)

Tickers == {"TSLA", "AAPL"}
HoursBackValues == {0, DriverHoursBack, MaxHoursBack}
Pages == {DefaultPage, DefaultPage + 1}
PageSizes == {DriverPageSize, DefaultPageSize}
ApiKeys == {"key-1", None}

NoArgs == [ticker |-> "", hours_back |-> 0, page |-> 0, page_size |-> 0]
NoDatetime == Datetime(0, 0)
NoParams == [q |-> ""]

\* The params dict literal of fetch_stock_news.
BuildParams(ticker, hours_back, page, page_size, t, key) ==
    [q        |-> ticker,
     from     |-> isoformat(MinusHours(t, hours_back)),
     to       |-> isoformat(t),
     language |-> "en",
     sortBy   |-> "relevancy",
     page     |-> page,
     pageSize |-> page_size,
     apiKey   |-> key]

\* requests drops every params entry whose value is None before it encodes the
\* query string.  Only the string-valued entries can be None here.
StringParams == {"q", "language", "sortBy", "apiKey"}

EncodeParams(p) ==
    LET kept == {k \in DOMAIN p : ~(k \in StringParams /\ p[k] = None)}
    IN  [k \in kept |-> p[k]]

----------------------------------------------------------------------------
(* The upstream service: article records, response bodies, responses *)

Source(name) == [id |-> None, name |-> name]

\* The articles of the response the notebook captured (cell output), in order.
CapturedArticles ==
    << [source |-> Source("Quartz India"), author |-> "Kevin Williams",
        title |-> "Tesla rival Xiaomi shows off its new SUV in Beijing",
        url |-> "https://qz.com/telsa-xiaomi-ev-suv-yu7-1851782952",
        publishedAt |-> "2025-05-29T17:31:15Z"],
       [source |-> Source("Yahoo Entertainment"), author |-> "Ali Ahmed",
        title |-> "TD Cowen Maintains Buy Rating on Tesla (TSLA)",
        url |-> "https://finance.yahoo.com/news/td-cowen-maintains-buy-rating-172221555.html",
        publishedAt |-> "2025-05-29T17:22:21Z"],
       [source |-> Source("Biztoc.com"), author |-> "finance.yahoo.com",
        title |-> "TD Cowen Maintains Buy Rating on Tesla (TSLA)",
        url |-> "https://biztoc.com/x/54c357edbe3ddf04",
        publishedAt |-> "2025-05-29T17:31:15Z"],
       [source |-> Source("Biztoc.com"), author |-> "teslarati.com",
        title |-> "Tesla analyst's firm has sold its entire TSLA position: Here's why",
        url |-> "https://biztoc.com/x/a6a6563384a07189",
        publishedAt |-> "2025-05-29T15:38:56Z"],
       [source |-> Source("Biztoc.com"), author |-> "investopedia.com",
        title |-> "5 Things to Know Before the Stock Market Opens",
        url |-> "https://biztoc.com/x/556475519d87d05d",
        publishedAt |-> "2025-05-29T19:00:05Z"] >>

\* Article records the service may send: a complete one, and ones lacking url,
\* publishedAt or the name of the source.
ArticlePool ==
    { [source |-> Source("S"), title |-> "complete", url |-> "u", publishedAt |-> "p"],
      [source |-> Source("S"), title |-> "no url", publishedAt |-> "p"],
      [source |-> Source("S"), title |-> "no publishedAt", url |-> "u"],
      [source |-> [id |-> None], title |-> "no source name", url |-> "u",
       publishedAt |-> "p"] }

ArticleLists ==
    UNION {[1..n -> ArticlePool] : n \in 0..MaxArticles} \cup {CapturedArticles}

\* A response body: text that is or is not JSON; JSON text denotes an object
\* (a dict once parsed) or something else (here an array).
OkBody(arts) ==
    [syntax |-> "json", top |-> "object",
     obj |-> [status |-> "ok", totalResults |-> Len(arts), articles |-> arts]]

ErrorBody ==
    [syntax |-> "json", top |-> "object",
     obj |-> [status |-> "error", code |-> "rateLimited"]]

ArrayBody == [syntax |-> "json", top |-> "array", obj |-> [status |-> None]]

NotJsonBody == [syntax |-> "text", top |-> None, obj |-> [status |-> None]]

Bodies == {OkBody(a) : a \in ArticleLists} \cup {ErrorBody, ArrayBody, NotJsonBody}

Statuses == {200, 304, 429, 500}

Responses == [status : Statuses, body : Bodies]

NoResp == [status |-> 0, body |-> NotJsonBody]

\* requests.get raises one of these when no response is received.
TransportExceptions == {"ConnectionError", "Timeout"}

----------------------------------------------------------------------------
(* Outcomes of a call *)

NoOutcome == [kind |-> "none", exc |-> None, response |-> NoResp, value |-> <<>>]

Returned(v) == [kind |-> "return", exc |-> None, response |-> NoResp, value |-> v]

\* An exception; HTTPError carries the response it was raised for.
Raised(e, r) == [kind |-> "raise", exc |-> e, response |-> r, value |-> <<>>]

\* A status check that only knows server errors.
IsServerErrorOnly(status) == 500 <= status /\ status < 600

\* Response.raise_for_status(): HTTPError for a 4xx or 5xx status, else nothing.
IsErrorStatus(status) == 400 <= status /\ status < 600

\* Response.json(): the parsed value, or JSONDecodeError.
JsonRaises(body) == body.syntax # "json"

\* resp.json()["articles"]: KeyError on a dict without the key, TypeError on a
\* value that is no dict.
SubscriptExc(body, key) ==
    IF body.top # "object" THEN "TypeError"
    ELSE IF key \notin DOMAIN body.obj THEN "KeyError"
    ELSE None

----------------------------------------------------------------------------
(* The notebook *)

Init ==
    /\ NEWS_API_KEY \in ApiKeys
    /\ pc = "idle"
    /\ args = NoArgs
    /\ now = NoDatetime
    /\ params = NoParams
    /\ resp = NoResp
    /\ outcome = NoOutcome
    /\ cellExc = None
    /\ articles = <<>>
    /\ idx = 0
    /\ stdout = <<>>
    /\ trace = <<>>
    /\ wire = <<>>
    /\ sent = 0
    /\ nCalls = 0
    /\ nRequests = 0

\* The frame of fetch_stock_news is gone once the call returned or raised.
PopFrame ==
    /\ args' = NoArgs
    /\ now' = NoDatetime
    /\ params' = NoParams
    /\ resp' = NoResp
    /\ wire' = <<>>

\* The driver cell is run and calls fetch_stock_news, which reads the clock and
\* builds params.  An `articles` left by an earlier run is not read before the
\* cell rebinds it, so the run starts without it.
Call(ticker, hours_back, page, page_size, t) ==
    /\ pc \in {"idle", "done"}
    /\ nCalls < MaxCalls
    /\ nCalls' = nCalls + 1
    /\ args' = [ticker |-> ticker, hours_back |-> hours_back, page |-> page,
                page_size |-> page_size]
    /\ now' = t
    /\ params' = BuildParams(ticker, hours_back, page, page_size, t, NEWS_API_KEY)
    /\ resp' = NoResp
    /\ outcome' = NoOutcome
    /\ cellExc' = None
    /\ articles' = <<>>
    /\ idx' = 0
    /\ stdout' = <<>>
    /\ trace' = <<"params">>
    /\ wire' = <<>>
    /\ sent' = 0
    /\ pc' = "get"
    /\ UNCHANGED <<NEWS_API_KEY, nRequests>>

\* resp = requests.get(url, params=params), a response arrives.
GetResponse(r) ==
    /\ pc = "get"
    /\ wire' = Append(wire, EncodeParams(params))
    /\ sent' = sent + 1
    /\ nRequests' = nRequests + 1
    /\ resp' = r
    /\ trace' = Append(trace, "get")
    /\ pc' = "raise_for_status"
    /\ UNCHANGED <<NEWS_API_KEY, args, now, params, outcome, cellExc, articles,
                   idx, stdout, nCalls>>

\* A get that swallows the failure and goes on without a response.
GetFailsSwallowed(e) ==
    /\ pc = "get"
    /\ sent' = sent + 1
    /\ nRequests' = nRequests + 1
    /\ trace' = Append(trace, "get")
    /\ pc' = "raise_for_status"
    /\ UNCHANGED <<NEWS_API_KEY, args, now, params, resp, wire, outcome, cellExc,
                   articles, idx, stdout, nCalls>>

\* resp = requests.get(url, params=params), no response arrives: the request
\* went out and requests raises.
GetFails(e) ==
    /\ pc = "get"
    /\ sent' = sent + 1
    /\ nRequests' = nRequests + 1
    /\ trace' = Append(trace, "get")
    /\ outcome' = Raised(e, NoResp)
    /\ PopFrame
    /\ pc' = "done"
    /\ UNCHANGED <<NEWS_API_KEY, cellExc, articles, idx, stdout, nCalls>>

\* A status check that asks again on an error status instead of raising.
RaiseForStatusRetry ==
    /\ pc = "raise_for_status"
    /\ trace' = Append(trace, "raise_for_status")
    /\ pc' = IF IsErrorStatus(resp.status) THEN "get" ELSE "print"
    /\ UNCHANGED <<NEWS_API_KEY, args, now, params, resp, wire, outcome, cellExc,
                   articles, idx, stdout, sent, nCalls, nRequests>>

\* A status check placed after the print of the body.
RaiseForStatusAfterPrint ==
    /\ pc = "raise_for_status"
    /\ trace' = Append(trace, "raise_for_status")
    /\ stdout' = Append(stdout, [tag |-> "json", val |-> resp.body])
    /\ IF IsErrorStatus(resp.status)
       THEN /\ outcome' = Raised("HTTPError", resp)
            /\ PopFrame
            /\ pc' = "done"
       ELSE /\ pc' = "return"
            /\ UNCHANGED <<args, now, params, resp, wire, outcome>>
    /\ UNCHANGED <<NEWS_API_KEY, cellExc, articles, idx, sent, nCalls, nRequests>>

\* resp.raise_for_status()
RaiseForStatus ==
    /\ pc = "raise_for_status"
    /\ trace' = Append(trace, "raise_for_status")
    /\ IF IsErrorStatus(resp.status)
       THEN /\ outcome' = Raised("HTTPError", resp)
            /\ PopFrame
            /\ pc' = "done"
       ELSE /\ pc' = "print"
            /\ UNCHANGED <<args, now, params, resp, wire, outcome>>
    /\ UNCHANGED <<NEWS_API_KEY, cellExc, articles, idx, stdout, sent, nCalls,
                   nRequests>>

\* print(resp.json())
PrintJson ==
    /\ pc = "print"
    /\ trace' = Append(trace, "json")
    /\ IF JsonRaises(resp.body)
       THEN /\ outcome' = Raised("JSONDecodeError", NoResp)
            /\ PopFrame
            /\ pc' = "done"
            /\ UNCHANGED stdout
       ELSE /\ stdout' = Append(stdout, [tag |-> "json", val |-> resp.body])
            /\ pc' = "return"
            /\ UNCHANGED <<args, now, params, resp, wire, outcome>>
    /\ UNCHANGED <<NEWS_API_KEY, cellExc, articles, idx, sent, nCalls, nRequests>>

\* A return that loses the first record.
ArticlesOfDropFirst(body) ==
    IF body.obj.articles = <<>> THEN <<>> ELSE Tail(body.obj.articles)

\* The value of resp.json()["articles"] when the subscript succeeds.
ArticlesOf(body) == body.obj.articles

\* return resp.json()["articles"], and the driver's `articles = ...`
ReturnArticles ==
    /\ pc = "return"
    /\ trace' = Append(trace, "return")
    /\ LET e == IF JsonRaises(resp.body) THEN "JSONDecodeError"
                ELSE SubscriptExc(resp.body, "articles")
       IN  IF e # None
           THEN /\ outcome' = Raised(e, NoResp)
                /\ pc' = "done"
                /\ UNCHANGED articles
           ELSE /\ outcome' = Returned(ArticlesOf(resp.body))
                /\ articles' = ArticlesOf(resp.body)
                /\ pc' = "driver_count"
    /\ PopFrame
    /\ UNCHANGED <<NEWS_API_KEY, cellExc, idx, stdout, sent, nCalls, nRequests>>

\* print(f"Fetched {len(articles)} APPL-related articles in last {hours_back}h.")
DriverPrintCount ==
    /\ pc = "driver_count"
    /\ stdout' = Append(stdout, [tag |-> "Fetched", val |-> Len(articles)])
    /\ idx' = 0
    /\ pc' = "driver_loop"
    /\ UNCHANGED <<NEWS_API_KEY, args, now, params, resp, outcome, cellExc,
                   articles, trace, wire, sent, nCalls, nRequests>>

\* The four prints of the loop body, in order, each with the lookup it makes.
Line(tag, present, val) == [tag |-> tag, present |-> present, val |-> val]

LoopLines(article) ==
    LET has(k) == k \in DOMAIN article
        hasName == has("source") /\ "name" \in DOMAIN article.source
    IN  << Line("Title", has("title"), IF has("title") THEN article.title ELSE None),
           Line("Source", hasName, IF hasName THEN article.source.name ELSE None),
           Line("Published At", has("publishedAt"),
                IF has("publishedAt") THEN article.publishedAt ELSE None),
           Line("URL", has("url"), IF has("url") THEN article.url ELSE None) >>

\* Number of leading lines whose lookup succeeds.
RECURSIVE Printable(_)
Printable(lines) ==
    IF lines = <<>> \/ ~Head(lines).present THEN 0
    ELSE 1 + Printable(Tail(lines))

\* One iteration of `for article in articles:`: prints until a lookup raises
\* KeyError, which ends the cell.
DriverLoop ==
    /\ pc = "driver_loop"
    /\ idx < Len(articles)
    /\ LET lines == LoopLines(articles[idx + 1])
           n == Printable(lines)
       IN  /\ stdout' = stdout \o [i \in 1..n |-> [tag |-> lines[i].tag,
                                                    val |-> lines[i].val]]
           /\ IF n < Len(lines)
              THEN /\ cellExc' = "KeyError"
                   /\ pc' = "done"
                   /\ UNCHANGED idx
              ELSE /\ idx' = idx + 1
                   /\ UNCHANGED <<cellExc, pc>>
    /\ UNCHANGED <<NEWS_API_KEY, args, now, params, resp, outcome, articles,
                   trace, wire, sent, nCalls, nRequests>>

\* The loop is exhausted and the cell ends.
DriverEnd ==
    /\ pc = "driver_loop"
    /\ idx = Len(articles)
    /\ pc' = "done"
    /\ UNCHANGED <<NEWS_API_KEY, args, now, params, resp, outcome, cellExc,
                   articles, idx, stdout, trace, wire, sent, nCalls, nRequests>>

Next ==
    \/ \E ticker \in Tickers, hours_back \in HoursBackValues, page \in Pages,
          page_size \in PageSizes, t \in NowValues :
            Call(ticker, hours_back, page, page_size, t)
    \/ \E r \in Responses : GetResponse(r)
    \/ \E e \in TransportExceptions : GetFails(e)
    \/ RaiseForStatus
    \/ PrintJson
    \/ ReturnArticles
    \/ DriverPrintCount
    \/ DriverLoop
    \/ DriverEnd

Spec == Init /\ [][Next]_vars

----------------------------------------------------------------------------
(* Properties *)

IsPrefix(a, b) == Len(a) <= Len(b) /\ SubSeq(b, 1, Len(a)) = a

FetchSteps == <<"params", "get", "raise_for_status", "json", "return">>

HasArticles(body) ==
    body.syntax = "json" /\ body.top = "object" /\ "articles" \in DOMAIN body.obj

IsDriverCall ==
    args = [ticker |-> "TSLA", hours_back |-> DriverHoursBack, page |-> DriverPage,
            page_size |-> DriverPageSize]

\* C1: a 200 answer whose body is {"status":"ok","articles":[a1..an]} passes the
\* status check and the print, and the call returns exactly a1..an: the same
\* records in the same order.  For the driver's call and the captured answer
\* that is 5 records, the first one the Quartz India article.
C1_ReturnsArticlesInOrder ==
    [][ (resp.status = 200 /\ HasArticles(resp.body) /\ resp.body.obj.status = "ok")
        => /\ pc = "raise_for_status" => pc' = "print"
           /\ pc = "print" => pc' = "return"
           /\ pc = "return" =>
                /\ outcome'.kind = "return"
                /\ outcome'.value = resp.body.obj.articles
                /\ Len(outcome'.value) = Len(resp.body.obj.articles)
                /\ articles' = outcome'.value
                /\ (IsDriverCall /\ resp.body = OkBody(CapturedArticles)) =>
                     /\ Len(outcome'.value) = 5
                     /\ outcome'.value[1].title =
                          "Tesla rival Xiaomi shows off its new SUV in Beijing"
                     /\ outcome'.value[1].source.name = "Quartz India"
                     /\ outcome'.value[1].publishedAt = "2025-05-29T17:31:15Z"
      ]_vars

C1_Witness ==
    /\ pc = "driver_count"
    /\ outcome.kind = "return"
    /\ Len(outcome.value) = 5
    /\ outcome.value[1].source.name = "Quartz India"

C3_MissingKeySendsNothing ==
    NEWS_API_KEY = None =>
        /\ sent = 0
        /\ nRequests = 0
        /\ pc = "done" => (outcome.kind = "raise" /\ outcome.exc = "ConfigurationError")

IsIso(s) == s[2] \in 0..(HoursPerDay - 1)

\* C4: for hours_back > 0 the `from` and `to` parameters are well-formed
\* timestamps with from < to and to - from = hours_back hours; `to` is the one
\* clock reading of the call and `from` is that reading minus hours_back hours.
C4_Window ==
    (pc \in {"get", "raise_for_status", "print", "return"} /\ args.hours_back > 0)
    => /\ IsIso(params.from) /\ IsIso(params.to)
       /\ IsoHours(params.from) < IsoHours(params.to)
       /\ IsoHours(params.to) - IsoHours(params.from) = args.hours_back
       /\ params.to = <<now.day, now.hour>>
       /\ IsoHours(params.from) = now.day * HoursPerDay + now.hour - args.hours_back

C4_Witness ==
    /\ pc = "get"
    /\ args.hours_back = MaxHoursBack
    /\ now.hour = 0
    /\ params.from[1] < params.to[1] - 1

\* C5: a call sends at most one request whatever its outcome and exactly one
\* when it returns articles; the requests sent so far are as many as the calls
\* that got to requests.get, so a later call sends its own request.
C5_OneRequestPerCall ==
    /\ sent <= 1
    /\ Len(wire) <= 1
    /\ outcome.kind # "none" => sent = 1
    /\ outcome.kind = "return" => sent = 1
    /\ nRequests = nCalls - (IF pc = "get" THEN 1 ELSE 0)

C5_Witness ==
    /\ nCalls = MaxCalls
    /\ nRequests = MaxCalls
    /\ pc = "done"
    /\ outcome.kind = "return"

\* C6: a call that got past the status check and then failed on the body (text
\* that is no JSON, or JSON without `articles`) failed with one and the same
\* error kind, the one a body that is no JSON gives.
C6_OneParseErrorKind ==
    (outcome.kind = "raise" /\ Len(trace) > 3) => outcome.exc = "JSONDecodeError"

\* C7: when requests.get gets no response the call ends there with a transport
\* exception, which is none of the exceptions of the status check or of the
\* body; no status was checked, no body parsed or printed, no articles returned.
C7_TransportFailure ==
    [][ (pc = "get" /\ resp' = NoResp)
        => /\ pc' = "done"
           /\ outcome'.kind = "raise"
           /\ outcome'.exc \in TransportExceptions
           /\ outcome'.exc \notin {"HTTPError", "JSONDecodeError", "KeyError",
                                    "TypeError"}
           /\ trace' = <<"params", "get">>
           /\ stdout' = <<>>
           /\ articles' = <<>>
      ]_vars

C7_Witness ==
    /\ pc = "done"
    /\ outcome.exc = "Timeout"
    /\ trace = <<"params", "get">>

QueryKeys ==
    {"q", "from", "to", "language", "sortBy", "page", "pageSize", "apiKey"}

\* C8: every request a call sends carries exactly the parameters q, from, to,
\* language, sortBy, page, pageSize and apiKey, with the arguments and the
\* configured key passed through unchanged.
C8_QueryParameters ==
    \A i \in 1..Len(wire) :
        /\ DOMAIN wire[i] = QueryKeys
        /\ wire[i].q = args.ticker
        /\ wire[i].language = "en"
        /\ wire[i].sortBy = "relevancy"
        /\ wire[i].page = args.page
        /\ wire[i].pageSize = args.page_size
        /\ wire[i].apiKey = NEWS_API_KEY

\* C9: after a successful fetch the driver's loop gets through every record,
\* whichever of url, publishedAt and the source name a record lacks: the cell
\* never ends in an error and ends with the loop exhausted.
C9_MissingFieldsTolerated ==
    /\ cellExc = None
    /\ (pc = "done" /\ outcome.kind = "return") => idx = Len(articles)

====
